---------------------------- MODULE Spec2Model ----------------------------
(***************************************************************************)
(* Model of the STL slicer component (STLSlicer): the settings-to-overrides *)
(* compiler buildOverrides and the print-report construction of sliceFile.  *)
(*                                                                         *)
(* JavaScript values are tagged records [t, n, s]:                         *)
(*   t = "undefined" | "number" | "NaN" | "boolean" | "string"             *)
(*   n = the number in thousandths (0.15 is 150, 210 is 210000),           *)
(*       1/0 for a boolean                                                 *)
(*   s = the characters of a string                                        *)
(* Strings that the code case-converts (materialType) are records          *)
(* [t, c] whose c is the sequence of their characters.                     *)
(*                                                                         *)
(* pc, runSettings, overrides and result are the position and the locals   *)
(* of the one sliceFile run in flight; changes counts the calls of         *)
(* handleSettingChange; renderedTime is the Estimated Time text of the     *)
(* last render ("" while no report is shown).                              *)
(***************************************************************************)
EXTENDS Integers, Sequences, FiniteSets, TLC

VARIABLES file, printInfo, error, isSlicing, progress, userSettings,
          pc, runSettings, overrides, result, changes, renderedTime

vars == <<file, printInfo, error, isSlicing, progress, userSettings,
          pc, runSettings, overrides, result, changes, renderedTime>>

-----------------------------------------------------------------------------
(* JavaScript values *)

Undefined == [t |-> "undefined", n |-> 0, s |-> ""]

NaN == [t |-> "NaN", n |-> 0, s |-> ""]

Milli(m) == [t |-> "number", n |-> m, s |-> ""]

Num(k) == Milli(k * 1000)

Str(x) == [t |-> "string", n |-> 0, s |-> x]

Bool(b) == [t |-> "boolean", n |-> IF b THEN 1 ELSE 0, s |-> ""]

\* ToBoolean: undefined, NaN, 0, "" and false are falsy
Truthy(v) ==
  CASE v.t = "number" -> v.n # 0
    [] v.t = "string" -> v.s # ""
    [] v.t = "boolean" -> v.n = 1
    [] OTHER -> FALSE

\* a || b
Or(a, b) == IF Truthy(a) THEN a ELSE b

\* character strings
ChUndefined == [t |-> "undefined", c |-> <<>>]

Chars(cs) == [t |-> "string", c |-> cs]

ChTruthy(v) == v.t = "string" /\ v.c # <<>>

LowerChar(ch) ==
  CASE ch = "P" -> "p"
    [] ch = "L" -> "l"
    [] ch = "A" -> "a"
    [] ch = "B" -> "b"
    [] ch = "S" -> "s"
    [] ch = "E" -> "e"
    [] ch = "T" -> "t"
    [] ch = "G" -> "g"
    [] OTHER -> ch

UpperChar(ch) ==
  CASE ch = "p" -> "P"
    [] ch = "l" -> "L"
    [] ch = "a" -> "A"
    [] ch = "b" -> "B"
    [] ch = "s" -> "S"
    [] ch = "e" -> "E"
    [] ch = "t" -> "T"
    [] ch = "g" -> "G"
    [] OTHER -> ch

toLowerCase(cs) == [i \in 1..Len(cs) |-> LowerChar(cs[i])]

toUpperCase(cs) == [i \in 1..Len(cs) |-> UpperChar(cs[i])]

-----------------------------------------------------------------------------
(* buildOverrides *)

Override(k, v) == [key |-> k, value |-> v]

DefaultInfill == 20

DefaultLayerHeight == 150

DefaultInitialLayerHeight == 200

\* variant: the density is emitted only when supplied (as in Slicer.js)
BaselineOverrides_NoDefault(user) ==
  << Override("speed_print", Num(80)),
     Override("material_bed_temperature", Num(70)),
     Override("material_print_temperature", Num(210)) >>
  \o (IF user.infillDensity.t # "undefined"
        THEN << Override("infill_sparse_density", user.infillDensity) >>
        ELSE << >>)

\* the array literal the function starts from
BaselineOverrides(user) ==
  << Override("speed_print", Num(80)),
     Override("material_bed_temperature", Num(70)),
     Override("material_print_temperature", Num(210)),
     Override("infill_sparse_density",
              Or(user.infillDensity, Num(DefaultInfill))) >>

\* x * 1.5 on thousandths (exact for the even inputs the model draws)
TimesOneAndHalf(v) == Milli((v.n * 3) \div 2)

\* variant: no separate branch for the default layer height
LayerHeightOverrides_NoDefaultCase(user) ==
  IF Truthy(user.layerHeight)
    THEN << Override("layer_height", user.layerHeight),
            Override("initial_layer_height", TimesOneAndHalf(user.layerHeight)) >>
    ELSE << >>

LayerHeightOverrides(user) ==
  IF Truthy(user.layerHeight) /\ user.layerHeight # Milli(DefaultLayerHeight)
    THEN << Override("layer_height", user.layerHeight),
            Override("initial_layer_height", TimesOneAndHalf(user.layerHeight)) >>
    ELSE IF user.layerHeight = Milli(DefaultLayerHeight)
      THEN << Override("layer_height", Milli(DefaultLayerHeight)),
              Override("initial_layer_height", Milli(DefaultInitialLayerHeight)) >>
      ELSE << >>

InfillPatternOverrides(user) ==
  IF Truthy(user.infillPattern)
    THEN << Override("infill_pattern", user.infillPattern) >>
    ELSE << >>

\* variant: support_type taken from supportType (as in Slicer.js)
SupportOverrides_WithType(user) ==
  (IF user.supportEnable.t # "undefined"
     THEN << Override("support_enable", user.supportEnable) >>
     ELSE << >>)
  \o (IF Truthy(user.supportType)
        THEN << Override("support_type", user.supportType) >>
        ELSE << >>)

SupportOverrides(user) ==
  IF user.supportEnable.t # "undefined"
    THEN << Override("support_enable", user.supportEnable) >>
         \o (IF Truthy(user.supportEnable)
               THEN << Override("support_type", Str("buildplate")),
                       Override("support_angle", Num(50)),
                       Override("support_infill_rate", Num(15)) >>
               ELSE << >>)
    ELSE << >>

PresetOverrides(temp, bed, retraction, speed) ==
  << Override("material_print_temperature", temp),
     Override("material_bed_temperature", bed),
     Override("retraction_amount", retraction),
     Override("speed_print", speed) >>

\* variant: the switch without toLowerCase
MaterialOverrides_CaseSensitive(user) ==
  IF ChTruthy(user.materialType)
    THEN CASE user.materialType.c = <<"p", "l", "a">> ->
                PresetOverrides(Num(210), Num(60), Milli(6500), Num(80))
           [] user.materialType.c = <<"p", "l", "a", "+">> ->
                PresetOverrides(Num(220), Num(70), Milli(6500), Num(75))
           [] user.materialType.c = <<"a", "b", "s">> ->
                PresetOverrides(Num(250), Num(100), Milli(4500), Num(70))
           [] OTHER -> << >>
    ELSE << >>

MaterialOverrides(user) ==
  IF ChTruthy(user.materialType)
    THEN LET m == toLowerCase(user.materialType.c)
         IN  CASE m = <<"p", "l", "a">> ->
                    PresetOverrides(Num(210), Num(60), Milli(6500), Num(80))
               [] m = <<"p", "l", "a", "+">> ->
                    PresetOverrides(Num(220), Num(70), Milli(6500), Num(75))
               [] m = <<"a", "b", "s">> ->
                    PresetOverrides(Num(250), Num(100), Milli(4500), Num(70))
               [] OTHER -> << >>
    ELSE << >>

MaterialColorOverrides(user) ==
  IF Truthy(user.materialColor)
    THEN << Override("material_colour", user.materialColor) >>
    ELSE << >>

\* variant: material_colour pushed after the quality block
QualityOverrides_ColourLast(user) ==
  << Override("retraction_enable", Bool(TRUE)),
     Override("wall_line_count", Num(3)),
     Override("top_layers", Num(4)),
     Override("bottom_layers", Num(3)),
     Override("adhesion_type", Str("skirt")) >>
  \o MaterialColorOverrides(user)

QualityOverrides(user) ==
  << Override("retraction_enable", Bool(TRUE)),
     Override("wall_line_count", Num(3)),
     Override("top_layers", Num(4)),
     Override("bottom_layers", Num(3)),
     Override("adhesion_type", Str("skirt")) >>

buildOverrides(user) ==
  BaselineOverrides(user)
  \o LayerHeightOverrides(user)
  \o InfillPatternOverrides(user)
  \o SupportOverrides(user)
  \o MaterialOverrides(user)
  \o MaterialColorOverrides(user)
  \o QualityOverrides(user)

-----------------------------------------------------------------------------
(* the report built by sliceFile from the engine's result *)

MetadataFields ==
  { "printTime", "print_time", "estimated_time",
    "filamentUsage", "material1Usage", "filament_used",
    "volume", "height", "width", "depth", "layers", "layer_count" }

EmptyMetadata == [f \in MetadataFields |-> Undefined]

NoResult == [settled |-> FALSE, hasMetadata |-> FALSE, metadata |-> EmptyMetadata]

Null == [t |-> "null"]

NA == Str("N/A")

filamentMm(md) ==
  Or(Or(Or(md.filamentUsage, md.material1Usage), md.filament_used), Num(0))

\* variant: 1.24 for pla, 1.05 for everything else (as in Slicer.js)
materialDensity_PlaOnly(settings) ==
  IF settings.materialType.t = "undefined"
    THEN 105
    ELSE IF toLowerCase(settings.materialType.c) = <<"p", "l", "a">>
      THEN 124 ELSE 105

\* density in hundredths of g/cm3
materialDensity(settings) ==
  IF settings.materialType.t = "undefined"
    THEN 124
    ELSE LET m == toLowerCase(settings.materialType.c)
         IN  CASE m = <<"p", "l", "a">> -> 124
               [] m = <<"p", "l", "a", "+">> -> 125
               [] m = <<"a", "b", "s">> -> 105
               [] OTHER -> 124

\* ToNumber of a value used in arithmetic (the strings drawn are non-numeric)
ToNumber(v) ==
  CASE v.t = "number" -> v
    [] v.t = "boolean" -> Milli(v.n * 1000)
    [] v.t = "string" -> IF v.s = "" THEN Milli(0) ELSE NaN
    [] OTHER -> NaN

TwoDigits(k) == IF k < 10 THEN "0" \o ToString(k) ELSE ToString(k)

\* Number.prototype.toFixed(2) of the exact quotient num / (100 * den):
\* nearest hundredth, ties away from zero
toFixed2(num, den) ==
  LET mag   == IF num < 0 THEN 0 - num ELSE num
      cents == (2 * mag + den) \div (2 * den)
  IN  (IF num < 0 THEN "-" ELSE "")
        \o ToString(cents \div 100) \o "." \o TwoDigits(cents % 100)

\* ((mm / 1000) * density).toFixed(2); mm.n is in thousandths and density in
\* hundredths, so the product is mm.n * density / 10^8
filamentGrams(mm, density) ==
  LET x == ToNumber(mm)
  IN  IF x.t = "NaN"
        THEN Str("NaN")
        ELSE Str(toFixed2(x.n * density, 1000000))

estimatedTime(md) ==
  Or(Or(Or(md.printTime, md.print_time), md.estimated_time), NA)

layerCount(md) == Or(Or(md.layers, md.layer_count), NA)

\* userSettings.materialType.toUpperCase() throws on undefined
InfoThrows(settings) == settings.materialType.t = "undefined"

EchoFields(settings) ==
  [ materialType  |-> Chars(toUpperCase(settings.materialType.c)),
    materialColor |-> settings.materialColor,
    layerHeight   |-> settings.layerHeight,
    infillDensity |-> settings.infillDensity ]

ReportFields(time, mm, grams, vol, h, w, d, layers) ==
  [ estimatedTime     |-> time,
    filamentUsedMm    |-> mm,
    filamentUsedGrams |-> grams,
    volume            |-> vol,
    height            |-> h,
    width             |-> w,
    depth             |-> d,
    layerCount        |-> layers ]

Info(report, echo) ==
  [ estimatedTime     |-> report.estimatedTime,
    filamentUsedMm    |-> report.filamentUsedMm,
    filamentUsedGrams |-> report.filamentUsedGrams,
    volume            |-> report.volume,
    height            |-> report.height,
    width             |-> report.width,
    depth             |-> report.depth,
    layerCount        |-> report.layerCount,
    materialType      |-> echo.materialType,
    materialColor     |-> echo.materialColor,
    layerHeight       |-> echo.layerHeight,
    infillDensity     |-> echo.infillDensity ]

MetadataInfo(md, settings) ==
  Info(ReportFields(estimatedTime(md),
                    filamentMm(md),
                    filamentGrams(filamentMm(md), materialDensity(settings)),
                    Or(md.volume, NA), Or(md.height, NA),
                    Or(md.width, NA), Or(md.depth, NA),
                    layerCount(md)),
       EchoFields(settings))

NoMetadataInfo(settings) ==
  Info(ReportFields(NA, NA, NA, NA, NA, NA, NA, NA), EchoFields(settings))

-----------------------------------------------------------------------------
(* formatTime *)

\* a % b of JavaScript for b > 0: the sign of the dividend
Rem(a, b) == IF a >= 0 THEN a % b ELSE 0 - ((0 - a) % b)

\* parseFloat of the strings the model draws
parseFloat(v) ==
  CASE v.s = "3725" -> Num(3725)
    [] v.s = "59.9" -> Milli(59900)
    [] OTHER -> NaN

\* the text for a number of seconds given in thousandths; Math.floor is \div
FormatNumber(n) ==
  LET hrs  == n \div 3600000
      mins == Rem(n, 3600000) \div 60000
      secs == Rem(n, 60000) \div 1000
  IN  IF hrs > 0
        THEN ToString(hrs) \o "h " \o ToString(mins) \o "m"
        ELSE IF mins > 0
          THEN ToString(mins) \o "m " \o ToString(secs) \o "s"
          ELSE ToString(secs) \o "s"

formatTime(seconds) ==
  IF ~Truthy(seconds) \/ seconds = Str("N/A")
    THEN "N/A"
    ELSE LET numSeconds == IF seconds.t = "string" THEN parseFloat(seconds)
                                                  ELSE ToNumber(seconds)
         IN  IF numSeconds.t = "NaN" THEN "N/A" ELSE FormatNumber(numSeconds.n)

\* what a render shows for Estimated Time: nothing without a report
RenderTime(info) == IF info = [t |-> "null"] THEN "" ELSE formatTime(info.estimatedTime)

-----------------------------------------------------------------------------
(* the component: state, handlers and the asynchronous run of sliceFile *)

Settings(lh, dens, pat, sup, supType, mat, col) ==
  [ layerHeight   |-> lh,
    infillDensity |-> dens,
    infillPattern |-> pat,
    supportEnable |-> sup,
    supportType   |-> supType,
    materialType  |-> mat,
    materialColor |-> col ]

InitialSettings ==
  Settings(Milli(150), Num(20), Str("grid"), Bool(FALSE), Undefined,
           Chars(<<"p", "l", "a">>), Str("blue"))

layerHeightOptions == { Milli(60), Milli(100), Milli(150), Milli(200), Milli(300) }

materialOptions ==
  { [value |-> <<"p", "l", "a">>,      color |-> "blue"],
    [value |-> <<"p", "l", "a", "+">>, color |-> "grey"],
    [value |-> <<"a", "b", "s">>,      color |-> "yellow"] }

\* values the form controls can deliver
SliderDensities == { Num(0), Num(20), Num(100) }

PatternChoices == { Str("grid"), Str("gyroid") }

ProgressValues == { 50, 100 }

ErrorMessages == { "engine failed" }

TypeErrorMessage == "Cannot read properties of undefined (reading 'toUpperCase')"

Catch(msg) == "Slicing failed: " \o msg

handleFileSelectValid ==
  /\ file' = TRUE
  /\ printInfo' = Null
  /\ renderedTime' = RenderTime(Null)
  /\ error' = ""
  /\ UNCHANGED <<isSlicing, progress, userSettings, pc, runSettings, overrides, result, changes>>

handleFileSelectInvalid ==
  /\ error' = "Please select a valid STL file"
  /\ UNCHANGED <<file, printInfo, isSlicing, progress, userSettings, pc,
                 runSettings, overrides, result, changes, renderedTime>>

\* number of handleSettingChange calls explored
MaxChanges == 2

SetSettings(newSettings) ==
  /\ changes < MaxChanges
  /\ changes' = changes + 1
  /\ userSettings' = newSettings
  /\ UNCHANGED <<file, printInfo, error, isSlicing, progress, pc,
                 runSettings, overrides, result, renderedTime>>

handleSettingChangeLayerHeight ==
  \E v \in layerHeightOptions :
    SetSettings([userSettings EXCEPT !.layerHeight = v])

handleSettingChangeInfillDensity ==
  \E v \in SliderDensities :
    SetSettings([userSettings EXCEPT !.infillDensity = v])

handleSettingChangeInfillPattern ==
  \E v \in PatternChoices :
    SetSettings([userSettings EXCEPT !.infillPattern = v])

handleSettingChangeSupportEnable ==
  \E v \in BOOLEAN :
    SetSettings([userSettings EXCEPT !.supportEnable = Bool(v)])

handleSettingChangeMaterialType ==
  \E m \in materialOptions :
    SetSettings([userSettings EXCEPT !.materialType = Chars(m.value),
                                     !.materialColor = Str(m.color)])

handleSettingChange ==
  \/ handleSettingChangeLayerHeight
  \/ handleSettingChangeInfillDensity
  \/ handleSettingChangeInfillPattern
  \/ handleSettingChangeSupportEnable
  \/ handleSettingChangeMaterialType

sliceFileNoFile ==
  /\ pc = "idle"
  /\ ~file
  /\ error' = "Please select an STL file first"
  /\ UNCHANGED <<file, printInfo, isSlicing, progress, userSettings, pc,
                 runSettings, overrides, result, changes, renderedTime>>

\* sliceFile up to its first await; the run keeps the settings of the render
\* whose handler was invoked
sliceFileStart ==
  /\ pc = "idle"
  /\ file
  /\ isSlicing' = TRUE
  /\ progress' = 0
  /\ error' = ""
  /\ runSettings' = userSettings
  /\ overrides' = buildOverrides(userSettings)
  /\ result' = NoResult
  /\ pc' = "awaitBuffer"
  /\ UNCHANGED <<file, printInfo, userSettings, changes, renderedTime>>

\* variant: catch without the finally block
Failed_NoFinally(msg) ==
  /\ error' = Catch(msg)
  /\ isSlicing' = isSlicing
  /\ progress' = progress
  /\ pc' = "idle"

\* catch and finally
Failed(msg) ==
  /\ error' = Catch(msg)
  /\ isSlicing' = FALSE
  /\ progress' = 0
  /\ pc' = "idle"

\* finally, after the try block completed
Finished ==
  /\ isSlicing' = FALSE
  /\ progress' = 0
  /\ pc' = "idle"

arrayBufferResolved ==
  /\ pc = "awaitBuffer"
  /\ pc' = "awaitSlice"
  /\ UNCHANGED <<file, printInfo, error, isSlicing, progress, userSettings,
                 runSettings, overrides, result, changes, renderedTime>>

arrayBufferRejected ==
  /\ pc = "awaitBuffer"
  /\ \E msg \in ErrorMessages : Failed(msg)
  /\ UNCHANGED <<file, printInfo, userSettings, runSettings, overrides, result, changes, renderedTime>>

onProgress ==
  /\ pc = "awaitSlice"
  /\ \E percent \in ProgressValues : progress' = percent
  /\ UNCHANGED <<file, printInfo, error, isSlicing, userSettings, pc,
                 runSettings, overrides, result, changes, renderedTime>>

\* slicer.slice resolved: the rest of the try block, then finally
SliceResolved(res, info) ==
  /\ pc = "awaitSlice"
  /\ result' = res
  /\ IF InfoThrows(runSettings)
       THEN /\ Failed(TypeErrorMessage)
            /\ UNCHANGED <<printInfo, renderedTime>>
       ELSE /\ printInfo' = info
            /\ renderedTime' = RenderTime(info)
            /\ Finished
            /\ UNCHANGED error
  /\ UNCHANGED <<file, userSettings, runSettings, overrides, changes>>

sliceRejected ==
  /\ pc = "awaitSlice"
  /\ \E msg \in ErrorMessages : Failed(msg)
  /\ result' = [NoResult EXCEPT !.settled = TRUE]
  /\ UNCHANGED <<file, printInfo, userSettings, runSettings, overrides, changes,
                 renderedTime>>

-----------------------------------------------------------------------------
(* engine results *)

\* largest number of fields present in a metadata record the engine returns
MaxPresent == 2

PresentValues == { Num(0), Num(2000), Num(3725), Num(0 - 5), Str("abc") }

MetadataOf(S, vals) ==
  [f \in MetadataFields |-> IF f \in S THEN vals[f] ELSE Undefined]

ResultWith(md) == [settled |-> TRUE, hasMetadata |-> TRUE, metadata |-> md]

ResultWithout == [settled |-> TRUE, hasMetadata |-> FALSE, metadata |-> EmptyMetadata]

sliceResolvedMetadata ==
  /\ pc = "awaitSlice"
  /\ \E S \in SUBSET MetadataFields :
    /\ Cardinality(S) <= MaxPresent
    /\ \E vals \in [S -> PresentValues] :
         LET md == MetadataOf(S, vals)
         IN  SliceResolved(ResultWith(md), MetadataInfo(md, runSettings))

sliceResolvedNoMetadata ==
  SliceResolved(ResultWithout, NoMetadataInfo(runSettings))

\* the component with a few representative engine results
SampleMetadata ==
  { EmptyMetadata,
    [EmptyMetadata EXCEPT !.printTime = Num(3725), !.filamentUsage = Num(2000),
                          !.layers = Num(100)] }

sliceResolvedSample ==
  /\ pc = "awaitSlice"
  /\ \E md \in SampleMetadata :
    SliceResolved(ResultWith(md), MetadataInfo(md, runSettings))

-----------------------------------------------------------------------------
(* specifications *)

InitWith(selected, settings) ==
  /\ file = selected
  /\ printInfo = Null
  /\ error = ""
  /\ isSlicing = FALSE
  /\ progress = 0
  /\ userSettings = settings
  /\ pc = "idle"
  /\ runSettings = settings
  /\ overrides = << >>
  /\ result = NoResult
  /\ changes = 0
  /\ renderedTime = ""

Init == InitWith(FALSE, InitialSettings)

Next ==
  \/ handleFileSelectValid
  \/ handleFileSelectInvalid
  \/ handleSettingChangeLayerHeight
  \/ handleSettingChangeInfillDensity
  \/ handleSettingChangeInfillPattern
  \/ handleSettingChangeSupportEnable
  \/ handleSettingChangeMaterialType
  \/ sliceFileNoFile
  \/ sliceFileStart
  \/ arrayBufferResolved
  \/ arrayBufferRejected
  \/ onProgress
  \/ sliceResolvedSample
  \/ sliceResolvedNoMetadata
  \/ sliceRejected

Spec == Init /\ [][Next]_vars

\* buildOverrides over every UserSettings value of the bounded input sets
LayerHeights == { Undefined, Milli(0), Milli(60), Milli(150), Milli(200), Milli(300) }

InfillDensities == { Undefined, Num(0), Num(20), Num(55), Num(100) }

InfillPatterns == { Undefined, Str("grid"), Str("gyroid") }

SupportEnables == { Undefined, Bool(FALSE), Bool(TRUE) }

SupportTypes == { Undefined, Str("buildplate"), Str("everywhere") }

MaterialTypes ==
  { ChUndefined, Chars(<< >>),
    Chars(<<"p", "l", "a">>), Chars(<<"P", "L", "A">>),
    Chars(<<"p", "l", "a", "+">>), Chars(<<"P", "l", "A", "+">>),
    Chars(<<"a", "b", "s">>), Chars(<<"A", "B", "s">>),
    Chars(<<"p", "e", "t", "g">>) }

MaterialColors == { Undefined, Str("blue"), Str("grey") }

UserSettingsSet ==
  { Settings(lh, dens, pat, sup, supType, mat, col) :
      lh \in LayerHeights, dens \in InfillDensities, pat \in InfillPatterns,
      sup \in SupportEnables, supType \in SupportTypes,
      mat \in MaterialTypes, col \in MaterialColors }

InitCompile == \E settings \in UserSettingsSet : InitWith(TRUE, settings)

SpecCompile == InitCompile /\ [][sliceFileStart]_vars

\* the report construction of sliceFile over every engine result of the
\* bounded sets, for every materialType
NormalizeSettingsSet ==
  { [InitialSettings EXCEPT !.materialType = mat] : mat \in MaterialTypes }

InitNormalize ==
  \E settings \in NormalizeSettingsSet :
    /\ file = TRUE
    /\ printInfo = Null
    /\ error = ""
    /\ isSlicing = TRUE
    /\ progress = 0
    /\ userSettings = settings
    /\ pc = "awaitSlice"
    /\ runSettings = settings
    /\ overrides = buildOverrides(settings)
    /\ result = NoResult
    /\ changes = 0
    /\ renderedTime = ""

NextNormalize ==
  \/ sliceResolvedMetadata
  \/ sliceResolvedNoMetadata
  \/ sliceRejected

SpecNormalize == InitNormalize /\ [][NextNormalize]_vars

-----------------------------------------------------------------------------
(* reading an override sequence *)

Count(seq, k) == Cardinality({ i \in 1..Len(seq) : seq[i].key = k })

HasKey(seq, k) == \E i \in 1..Len(seq) : seq[i].key = k

LastIndex(seq, k) ==
  CHOOSE i \in 1..Len(seq) :
    /\ seq[i].key = k
    /\ \A j \in (i + 1)..Len(seq) : seq[j].key # k

\* last occurrence wins
Effective(seq, k) == IF HasKey(seq, k) THEN seq[LastIndex(seq, k)].value ELSE Undefined

\* sliceFile has compiled the overrides of the run in flight
Compiled == pc = "awaitBuffer"

\* the spellings of the material names in the input sets
PlaSpellings == { <<"p", "l", "a">>, <<"P", "L", "A">> }

PlaPlusSpellings == { <<"p", "l", "a", "+">>, <<"P", "l", "A", "+">> }

AbsSpellings == { <<"a", "b", "s">>, <<"A", "B", "s">> }

Recognized(mat) ==
  /\ mat.t = "string"
  /\ mat.c \in PlaSpellings \cup PlaPlusSpellings \cup AbsSpellings

\* length of the array literal buildOverrides starts from
BaselineLength == 4

-----------------------------------------------------------------------------
(* C1..C7: buildOverrides, under SpecCompile *)

\* C1: whatever the settings, the sequence passed to the engine contains an
\* infill_sparse_density entry
C1_InfillAlwaysPresent ==
  Compiled => HasKey(overrides, "infill_sparse_density")

C1_Witness ==
  /\ Compiled
  /\ runSettings.infillDensity = Undefined
  /\ Effective(overrides, "infill_sparse_density") = Num(20)

PresetHolds(temp, bed, retraction, speed) ==
  /\ Effective(overrides, "material_print_temperature") = temp
  /\ Effective(overrides, "material_bed_temperature") = bed
  /\ Effective(overrides, "retraction_amount") = retraction
  /\ Effective(overrides, "speed_print") = speed

PresetKeys ==
  { "material_print_temperature", "material_bed_temperature",
    "retraction_amount", "speed_print" }

\* C2: for a recognized material in any letter case the last occurrence of
\* each of the four preset keys carries the material's preset value, and it
\* lies after the baseline block
C2_PresetSupersedesBaseline ==
  (Compiled /\ Recognized(runSettings.materialType)) =>
    /\ \A k \in PresetKeys :
         HasKey(overrides, k) /\ LastIndex(overrides, k) > BaselineLength
    /\ runSettings.materialType.c \in PlaSpellings =>
         PresetHolds(Num(210), Num(60), Milli(6500), Num(80))
    /\ runSettings.materialType.c \in PlaPlusSpellings =>
         PresetHolds(Num(220), Num(70), Milli(6500), Num(75))
    /\ runSettings.materialType.c \in AbsSpellings =>
         PresetHolds(Num(250), Num(100), Milli(4500), Num(70))

C2_Witness ==
  /\ Compiled
  /\ runSettings.materialType = Chars(<<"A", "B", "s">>)
  /\ Truthy(runSettings.materialColor)
  /\ PresetHolds(Num(250), Num(100), Milli(4500), Num(70))

\* every key buildOverrides can emit
KnownKeys ==
  { "speed_print", "material_bed_temperature", "material_print_temperature",
    "infill_sparse_density", "layer_height", "initial_layer_height",
    "infill_pattern", "support_enable", "support_type", "support_angle",
    "support_infill_rate", "retraction_amount", "material_colour",
    "retraction_enable", "wall_line_count", "top_layers", "bottom_layers",
    "adhesion_type" }

\* the known keys that start with support_
SupportKeys ==
  { "support_enable", "support_type", "support_angle", "support_infill_rate" }

\* C3: the support_* keys emitted depend only on supportEnable: none when it
\* is omitted, support_enable alone when false, all four once each when true
C3_SupportKeysBySupportEnable ==
  Compiled =>
    /\ \A i \in 1..Len(overrides) : overrides[i].key \in KnownKeys
    /\ runSettings.supportEnable = Undefined =>
         \A k \in SupportKeys : Count(overrides, k) = 0
    /\ runSettings.supportEnable = Bool(FALSE) =>
         /\ Count(overrides, "support_enable") = 1
         /\ \A k \in SupportKeys \ {"support_enable"} : Count(overrides, k) = 0
    /\ runSettings.supportEnable = Bool(TRUE) =>
         \A k \in SupportKeys : Count(overrides, k) = 1

C3_Witness ==
  /\ Compiled
  /\ runSettings.supportEnable = Undefined
  /\ runSettings.supportType = Str("everywhere")
  /\ \A k \in SupportKeys : ~HasKey(overrides, k)

Unrecognized(mat) ==
  mat.t = "undefined" \/ (mat.t = "string" /\ ~Recognized(mat))

\* C4: for an unset or unrecognized materialType the effective nozzle
\* temperature, bed temperature and print speed are those of the PLA preset
\* (210, 60, 80)
C4_FallbackIsPlaPreset ==
  (Compiled /\ Unrecognized(runSettings.materialType)) =>
    /\ Effective(overrides, "material_print_temperature") = Num(210)
    /\ Effective(overrides, "material_bed_temperature") = Num(60)
    /\ Effective(overrides, "speed_print") = Num(80)

Positive(v) == v.t = "number" /\ v.n > 0

\* C5: a positive layerHeight gives exactly one layer_height entry with the
\* user's value and exactly one initial_layer_height entry, after the baseline
\* block, of 0.2 for the default 0.15 and 1.5 times layerHeight otherwise
C5_LayerHeightPair ==
  (Compiled /\ Positive(runSettings.layerHeight)) =>
    /\ Count(overrides, "layer_height") = 1
    /\ Effective(overrides, "layer_height") = runSettings.layerHeight
    /\ Count(overrides, "initial_layer_height") = 1
    /\ LastIndex(overrides, "initial_layer_height") > BaselineLength
    /\ LET initial == Effective(overrides, "initial_layer_height")
       IN  /\ initial.t = "number"
           /\ IF runSettings.layerHeight.n = 150
                THEN initial.n = 200
                ELSE 2 * initial.n = 3 * runSettings.layerHeight.n

C5_Witness ==
  /\ Compiled
  /\ runSettings.layerHeight = Milli(150)
  /\ Effective(overrides, "layer_height") = Milli(150)
  /\ Effective(overrides, "initial_layer_height") = Milli(200)

InPercentRange(v) == v.t = "number" /\ v.n >= 0 /\ v.n <= 100000

\* C6: a supplied infillDensity in 0..100 is the effective
\* infill_sparse_density; 20 is used only when none was supplied
C6_SuppliedDensityIsEffective ==
  Compiled =>
    /\ InPercentRange(runSettings.infillDensity) =>
         Effective(overrides, "infill_sparse_density") = runSettings.infillDensity
    /\ runSettings.infillDensity = Undefined =>
         Effective(overrides, "infill_sparse_density") = Num(20)

QualityBlock ==
  << Override("retraction_enable", Bool(TRUE)),
     Override("wall_line_count", Num(3)),
     Override("top_layers", Num(4)),
     Override("bottom_layers", Num(3)),
     Override("adhesion_type", Str("skirt")) >>

QualityKeys ==
  { "retraction_enable", "wall_line_count", "top_layers", "bottom_layers",
    "adhesion_type" }

\* C7: the sequence ends with the fixed quality block, and no entry of any
\* other key follows an entry of the block
C7_QualityBlockLast ==
  Compiled =>
    /\ Len(overrides) >= Len(QualityBlock)
    /\ SubSeq(overrides, Len(overrides) - Len(QualityBlock) + 1, Len(overrides))
         = QualityBlock
    /\ \A i \in 1..(Len(overrides) - Len(QualityBlock)) :
         overrides[i].key \notin QualityKeys

C7_Witness ==
  /\ Compiled
  /\ runSettings.materialColor = Str("grey")
  /\ Recognized(runSettings.materialType)
  /\ runSettings.supportEnable = Bool(TRUE)
  /\ overrides[Len(overrides)] = Override("adhesion_type", Str("skirt"))
  /\ overrides[Len(overrides) - 5] = Override("material_colour", Str("grey"))

-----------------------------------------------------------------------------
(* C8..C10: the report built by sliceFile, under SpecNormalize *)

\* the run completed and stored a report built from a metadata record
Reported == pc = "idle" /\ printInfo # Null /\ result.hasMetadata

Present(md, f) == md[f] # Undefined

RECURSIVE FirstPresent(_, _)
\* the value of the first candidate present in md, N/A when none is
FirstPresent(md, candidates) ==
  IF candidates = << >>
    THEN NA
    ELSE IF Present(md, Head(candidates))
      THEN md[Head(candidates)]
      ELSE FirstPresent(md, Tail(candidates))

TimeCandidates == << "printTime", "print_time", "estimated_time" >>

FilamentCandidates == << "filamentUsage", "material1Usage", "filament_used" >>

LayerCandidates == << "layers", "layer_count" >>

\* C8: each of estimatedTime, filamentUsedMm and layerCount is the value of
\* the first candidate present in the metadata, a 0 included, and N/A only
\* when no candidate is present
C8_FirstPresentCandidate ==
  Reported =>
    /\ printInfo.estimatedTime = FirstPresent(result.metadata, TimeCandidates)
    /\ printInfo.filamentUsedMm = FirstPresent(result.metadata, FilamentCandidates)
    /\ printInfo.layerCount = FirstPresent(result.metadata, LayerCandidates)

DensityOf(mat) ==
  IF mat.t = "string" /\ mat.c \in PlaPlusSpellings THEN 125
  ELSE IF mat.t = "string" /\ mat.c \in AbsSpellings THEN 105
  ELSE 124

C10_UnknownLengthUnknownMass ==
  (Reported /\ \A i \in 1..Len(FilamentCandidates) :
                 ~Present(result.metadata, FilamentCandidates[i])) =>
    /\ printInfo.filamentUsedMm = NA
    /\ printInfo.filamentUsedGrams = NA

-----------------------------------------------------------------------------
(* C11: the numeric fields of the report, under SpecNormalize *)

NonNegativeOrNA(v) == v = NA \/ (v.t = "number" /\ v.n >= 0)

\* filamentUsedGrams is N/A or the two-decimal rendering of a non-negative mass
GramsNonNegativeOrNA ==
  \/ printInfo.filamentUsedGrams = NA
  \/ /\ printInfo.filamentUsedMm.t = "number"
     /\ printInfo.filamentUsedMm.n >= 0
     /\ printInfo.filamentUsedGrams =
          Str(toFixed2(printInfo.filamentUsedMm.n * DensityOf(runSettings.materialType),
                       1000000))

\* C11: every numeric field of a stored report is a non-negative number or
\* N/A; a negative or non-numeric raw value is never copied into the report
C11_NumericFieldsNonNegative ==
  (pc = "idle" /\ printInfo # Null) =>
    /\ NonNegativeOrNA(printInfo.estimatedTime)
    /\ NonNegativeOrNA(printInfo.filamentUsedMm)
    /\ GramsNonNegativeOrNA
    /\ NonNegativeOrNA(printInfo.volume)
    /\ NonNegativeOrNA(printInfo.height)
    /\ NonNegativeOrNA(printInfo.width)
    /\ NonNegativeOrNA(printInfo.depth)
    /\ NonNegativeOrNA(printInfo.layerCount)

-----------------------------------------------------------------------------
(* C12: formatTime, under SpecFormat *)

\* largest number of whole hours in the durations drawn
MaxHours == 2

\* durations in thousandths of a second, around the unit boundaries
Durations ==
  { Milli(h * 3600000 + m * 60000 + ms) :
      h \in 0..MaxHours, m \in {0, 1, 2, 59}, ms \in {0, 500, 1000, 59000, 59999} }

TimeInputs ==
  Durations \cup { Undefined, NaN, Str(""), NA, Str("abc"), Str("3725"), Str("59.9"),
                   Num(0 - 5) }

\* the render of a report: the Estimated Time line
render ==
  /\ printInfo # Null
  /\ renderedTime = ""
  /\ renderedTime' = RenderTime(printInfo)
  /\ UNCHANGED <<file, printInfo, error, isSlicing, progress, userSettings, pc,
                 runSettings, overrides, result, changes>>

InitFormat ==
  \E seconds \in TimeInputs :
    /\ file = TRUE
    /\ printInfo = [NoMetadataInfo(InitialSettings) EXCEPT !.estimatedTime = seconds]
    /\ error = ""
    /\ isSlicing = FALSE
    /\ progress = 0
    /\ userSettings = InitialSettings
    /\ pc = "idle"
    /\ runSettings = InitialSettings
    /\ overrides = buildOverrides(InitialSettings)
    /\ result = ResultWithout
    /\ changes = 0
    /\ renderedTime = ""

SpecFormat == InitFormat /\ [][render]_vars

Rendered == printInfo # Null /\ renderedTime # ""

\* the text the three-way rule gives for a whole number of seconds
ExpectedTime(total) ==
  LET h == total \div 3600
      m == (total % 3600) \div 60
      sec == total % 60
  IN  IF total >= 3600 THEN ToString(h) \o "h " \o ToString(m) \o "m"
      ELSE IF total >= 60 THEN ToString(m) \o "m " \o ToString(sec) \o "s"
      ELSE ToString(sec) \o "s"

MissingOrNonNumeric(v) ==
  v \in { Undefined, NaN, Str(""), NA, Str("abc") }

\* C12: a non-negative number of seconds, 0 included, is rendered as h/m,
\* m/s or s with every unit truncated (3725 is 1h 2m), and N/A is
\* returned exactly for a missing or non-numeric input
C12_FormatTime ==
  Rendered =>
    LET seconds == printInfo.estimatedTime
    IN  /\ (seconds.t = "number" /\ seconds.n >= 0) =>
             renderedTime = ExpectedTime(seconds.n \div 1000)
        /\ seconds = Num(3725) => renderedTime = "1h 2m"
        /\ MissingOrNonNumeric(seconds) => renderedTime = "N/A"
        /\ (seconds.t = "number" /\ seconds.n >= 0) => renderedTime # "N/A"

\* the same for the durations other than 0
C12_FormatTimePositive ==
  Rendered =>
    LET seconds == printInfo.estimatedTime
    IN  /\ (seconds.t = "number" /\ seconds.n > 0) =>
             renderedTime = ExpectedTime(seconds.n \div 1000)
        /\ seconds = Num(3725) => renderedTime = "1h 2m"
        /\ MissingOrNonNumeric(seconds) => renderedTime = "N/A"

-----------------------------------------------------------------------------
(* C13: the echo fields of the report, under Spec *)

\* the step in which the run in flight stores its report
StoresReport == pc = "awaitSlice" /\ pc' = "idle" /\ error' = error

\* the material whose preset the sequence encodes, in upper case
EncodedMaterial(seq) ==
  LET temp == Effective(seq, "material_print_temperature")
      bed  == Effective(seq, "material_bed_temperature")
  IN  CASE temp = Num(250) /\ bed = Num(100) -> <<"A", "B", "S">>
        [] temp = Num(220) /\ bed = Num(70)  -> <<"P", "L", "A", "+">>
        [] temp = Num(210) /\ bed = Num(60)  -> <<"P", "L", "A">>
        [] OTHER -> << >>

EchoesMaterialColourHeight(info, seq) ==
  /\ info.materialType.c = EncodedMaterial(seq)
  /\ info.materialColor = Effective(seq, "material_colour")
  /\ info.layerHeight = Effective(seq, "layer_height")

EchoesOverrides(info, seq) ==
  /\ EchoesMaterialColourHeight(info, seq)
  /\ info.infillDensity = Effective(seq, "infill_sparse_density")

\* C13: whatever setting changes interleave with the run, the report stored
\* at its completion echoes the material, colour, layer height and infill
\* density that the override sequence given to the engine for that run encodes
C13_EchoMatchesOverrides ==
  [][StoresReport => EchoesOverrides(printInfo', overrides')]_vars

\* without the infill density, and with the settings of the run's start
C13_EchoMatchesRunSettings ==
  [][StoresReport =>
       /\ EchoesMaterialColourHeight(printInfo', overrides')
       /\ printInfo'.infillDensity = runSettings.infillDensity
       /\ overrides' = buildOverrides(runSettings)]_vars

-----------------------------------------------------------------------------
(* C14: every run ends, under SpecLive *)

\* the component with the support radio buttons as the only setting changed
NextRun ==
  \/ handleFileSelectValid
  \/ handleFileSelectInvalid
  \/ handleSettingChangeSupportEnable
  \/ sliceFileNoFile
  \/ sliceFileStart
  \/ arrayBufferResolved
  \/ arrayBufferRejected
  \/ onProgress
  \/ sliceResolvedSample
  \/ sliceResolvedNoMetadata
  \/ sliceRejected

\* file.arrayBuffer() and slicer.slice() settle
SpecLive ==
  /\ Init
  /\ [][NextRun]_vars
  /\ WF_vars(arrayBufferResolved \/ arrayBufferRejected)
  /\ WF_vars(sliceResolvedSample \/ sliceResolvedNoMetadata \/ sliceRejected)

RunStarts == pc = "idle" /\ pc' # "idle"

RunEnds == pc # "idle" /\ pc' = "idle"

\* the run ends in the catch block
RunFails == RunEnds /\ error' # error

=============================================================================
